---- MODULE Spec2Model ----
(***************************************************************************)
(* Model of BusinessInfoSearchService (business-info-search.service.ts):   *)
(* keyword search and date-range search over the business-info table,      *)
(* built with the ORM's query builder.                                     *)
(*                                                                         *)
(* Texts are tuples of one-character strings.  Timestamps are instants,    *)
(* counted in hours since 1970-01-01T00:00Z.                               *)
(***************************************************************************)
EXTENDS Integers, Sequences, FiniteSets, TLC

VARIABLES store, tz, result, prev

vars == <<store, tz, result, prev>>

----------------------------------------------------------------------------
(* Bounds of the model *)

MaxPage == 2

MaxLimit == 2

----------------------------------------------------------------------------
(* Characters and texts *)

DigitChars == <<"0", "1", "2", "3", "4", "5", "6", "7", "8", "9">>

DigitValues ==
  [c \in {DigitChars[i] : i \in 1..10} |-> (CHOOSE i \in 1..10 : DigitChars[i] = c) - 1]

\* \d
IsDigit(c) == c \in DOMAIN DigitValues

DigitVal(c) == DigitValues[c]

IsSep(c) == c \in {"-", "/"}

IsSpace(c) == c = " "

RECURSIVE Number(_)
\* numeric value of a run of digits
Number(s) ==
  IF s = <<>> THEN 0 ELSE 10 * Number(SubSeq(s, 1, Len(s) - 1)) + DigitVal(s[Len(s)])

Pad2(n) == <<DigitChars[((n \div 10) % 10) + 1], DigitChars[(n % 10) + 1]>>

Pad4(n) == Pad2(n \div 100) \o Pad2(n % 100)

RECURSIVE TrimStart(_)
TrimStart(s) ==
  IF s # <<>> /\ IsSpace(s[1]) THEN TrimStart(Tail(s)) ELSE s

RECURSIVE TrimEnd(_)
TrimEnd(s) ==
  IF s # <<>> /\ IsSpace(s[Len(s)]) THEN TrimEnd(SubSeq(s, 1, Len(s) - 1)) ELSE s

\* String.prototype.trim
Trim(s) == TrimEnd(TrimStart(s))

----------------------------------------------------------------------------
(* datePattern = /^\d{4}[-/]\d{1,2}[-/]\d{1,2}$/ *)

ShapeWith(s, ml, dl) ==
  /\ Len(s) = 6 + ml + dl
  /\ \A i \in 1..4 : IsDigit(s[i])
  /\ IsSep(s[5])
  /\ \A i \in 6..(5 + ml) : IsDigit(s[i])
  /\ IsSep(s[6 + ml])
  /\ \A i \in (7 + ml)..(6 + ml + dl) : IsDigit(s[i])

datePattern(s) == \E ml \in 1..2, dl \in 1..2 : ShapeWith(s, ml, dl)

\* the year, month and day digits of a text that matches datePattern
DateParts(s) ==
  LET ml == IF IsSep(s[7]) THEN 1 ELSE 2
      dl == Len(s) - 6 - ml
  IN  [y   |-> Number(SubSeq(s, 1, 4)),
       m   |-> Number(SubSeq(s, 6, 5 + ml)),
       d   |-> Number(SubSeq(s, 7 + ml, Len(s))),
       iso |-> s[5] = "-" /\ s[6 + ml] = "-" /\ ml = 2 /\ dl = 2]

----------------------------------------------------------------------------
(* The Date object: calendar arithmetic, new Date(text), toISOString()     *)

\* a Date object: its time value, or no time value (NaN) when invalid
InvalidDate == [valid |-> FALSE, time |-> 0]

ValidDate(t) == [valid |-> TRUE, time |-> t]

RangeError == "RangeError"

\* the zones of the process: local time is UTC plus so many hours
TimeZones == {-5, 0, 9}

DaysFromCivil(y, m, d) ==
  LET yy  == IF m <= 2 THEN y - 1 ELSE y
      era == yy \div 400
      yoe == yy - era * 400
      mp  == IF m > 2 THEN m - 3 ELSE m + 9
      doy == (153 * mp + 2) \div 5 + d - 1
      doe == yoe * 365 + yoe \div 4 - yoe \div 100 + doy
  IN  era * 146097 + doe - 719468

CivilFromDays(z) ==
  LET zz  == z + 719468
      era == zz \div 146097
      doe == zz - era * 146097
      yoe == (doe - doe \div 1460 + doe \div 36524 - doe \div 146096) \div 365
      doy == doe - (365 * yoe + yoe \div 4 - yoe \div 100)
      mp  == (5 * doy + 2) \div 153
      d   == doy - (153 * mp + 2) \div 5 + 1
      m   == IF mp < 10 THEN mp + 3 ELSE mp - 9
      y   == yoe + era * 400 + (IF m <= 2 THEN 1 ELSE 0)
  IN  [y |-> y, m |-> m, d |-> d]

\* the instant y-m-d h:00 UTC
Instant(y, m, d, h) == DaysFromCivil(y, m, d) * 24 + h

\* calendar fields of an instant on the wall clock of zone z
WallClock(t, z) ==
  LET c == CivilFromDays((t + z) \div 24)
  IN  [y |-> c.y, m |-> c.m, d |-> c.d, h |-> (t + z) % 24]

\* new Date(text) on Node.js for a text that matches datePattern: the month
\* must be 1..12 and the day 1..31, else the date is invalid (a day past
\* the month's end rolls over); the ISO form YYYY-MM-DD is midnight UTC,
\* any other form is local midnight.
NewDate(s, z) ==
  LET p == DateParts(s)
  IN  IF p.m \notin 1..12 \/ p.d \notin 1..31
        THEN InvalidDate
        ELSE LET utc == (DaysFromCivil(p.y, p.m, 1) + p.d - 1) * 24
             IN  ValidDate(IF p.iso THEN utc ELSE utc - z)

\* Date.prototype.toISOString throws RangeError for an invalid date
toISOStringThrows(date) == ~date.valid

\* Date.prototype.toISOString: the UTC calendar fields of the instant
toISOString(date) == WallClock(date.time, 0)

\* the store reads a timestamp literal back as an instant
ReadTimestamp(iso) == Instant(iso.y, iso.m, iso.d, iso.h)

\* DATE(x): the date portion of a timestamp
DATE(t, z) == LET w == WallClock(t, z) IN <<w.y, w.m, w.d>>

\* the text form of a timestamp column: YYYY-MM-DD HH:00:00
TimestampText(t, z) ==
  LET w == WallClock(t, z)
  IN  Pad4(w.y) \o <<"-">> \o Pad2(w.m) \o <<"-">> \o Pad2(w.d) \o <<" ">>
        \o Pad2(w.h) \o <<":", "0", "0", ":", "0", "0">>

----------------------------------------------------------------------------
(* The business-info table *)

validFields ==
  <<"businessName", "businessNumber", "businessType", "businessCeo",
    "businessItem", "corporateRegistrationNumber", "businessTel",
    "businessMobile", "businessCeoEmail", "businessFax", "businessZipcode",
    "businessAddress", "businessAddressDetail", "createdAt", "updatedAt">>

TimestampFields == {"createdAt", "updatedAt"}

\* a BusinessInfo row; the columns not named are empty texts
BusinessInfo(name, number, ceo, item, address, created, updated, deleted) ==
  [businessName |-> name, businessNumber |-> number, businessType |-> <<>>,
   businessCeo |-> ceo, businessItem |-> item,
   corporateRegistrationNumber |-> <<>>, businessTel |-> <<>>,
   businessMobile |-> <<>>, businessCeoEmail |-> <<>>, businessFax |-> <<>>,
   businessZipcode |-> <<>>, businessAddress |-> address,
   businessAddressDetail |-> <<>>, createdAt |-> created,
   updatedAt |-> updated, isDeleted |-> deleted]

Row1 ==
  BusinessInfo(<<"a", "b">>, <<"1">>, <<>>, <<>>, <<>>,
               Instant(2024, 1, 31, 0), Instant(2024, 1, 15, 6), FALSE)

Row2 ==
  BusinessInfo(<<"a", "b">>, <<"2">>, <<>>, <<>>, <<>>,
               Instant(2024, 1, 31, 0), Instant(2024, 1, 31, 0), FALSE)

Row3 ==
  BusinessInfo(<<"b">>, <<"3">>, <<>>, <<>>, <<>>,
               Instant(2024, 1, 20, 0), Instant(2024, 1, 20, 0), TRUE)

Row4 ==
  BusinessInfo(<<"a">>, <<"4">>, <<>>, <<>>, <<"2", "0", "2", "4", "/", "1", "/", "1", "5">>,
               Instant(2024, 1, 15, 5), Instant(2024, 1, 15, 5), FALSE)

Row5 ==
  BusinessInfo(<<"c">>, <<"5">>, <<"%">>, <<"a", "_", "b">>, <<>>,
               Instant(2024, 1, 14, 15), Instant(2024, 2, 1, 0), FALSE)

\* the rows a table is drawn from
Catalog == {Row1, Row2, Row3, Row4, Row5}

\* the text a column shows to LIKE
ColumnText(r, field, z) ==
  IF field \in TimestampFields THEN TimestampText(r[field], z) ELSE r[field]

RECURSIVE Like(_, _)
\* text LIKE pattern: % is any run of characters, _ is any one character
Like(text, pattern) ==
  IF pattern = <<>> THEN text = <<>>
  ELSE IF pattern = <<"%">> THEN TRUE
  ELSE IF pattern[1] = "%"
    THEN Like(text, Tail(pattern)) \/ (text # <<>> /\ Like(Tail(text), pattern))
  ELSE IF pattern[1] = "_"
    THEN text # <<>> /\ Like(Tail(text), Tail(pattern))
  ELSE text # <<>> /\ text[1] = pattern[1] /\ Like(Tail(text), Tail(pattern))

\* the order of the characters
CharOrder ==
  <<" ", "%", "-", "/", "0", "1", "2", "3", "4", "5", "6", "7", "8", "9",
    ":", "_", "a", "b", "c">>

Rank(c) == CHOOSE i \in 1..Len(CharOrder) : CharOrder[i] = c

RECURSIVE TextLeq(_, _)
TextLeq(a, b) ==
  IF a = <<>> THEN TRUE
  ELSE IF b = <<>> THEN FALSE
  ELSE IF a[1] = b[1] THEN TextLeq(Tail(a), Tail(b))
  ELSE Rank(a[1]) < Rank(b[1])

----------------------------------------------------------------------------
(* The query builder: where / andWhere / orWhere / Brackets *)

where(condition) == <<[type |-> "simple", condition |-> condition]>>

andWhere(qb, condition) == Append(qb, [type |-> "and", condition |-> condition])

orWhere(qb, condition) == Append(qb, [type |-> "or", condition |-> condition])

Brackets(wheres) == [op |-> "brackets", wheres |-> wheres]

\* 'business.isDeleted = false'
NotDeleted == [op |-> "notDeleted"]

RECURSIVE Holds(_, _, _)
RECURSIVE EvalWheres(_, _, _)

\* whether row r satisfies one condition
Holds(c, r, z) ==
  CASE c.op = "notDeleted" -> r.isDeleted = FALSE
    [] c.op = "like"       -> Like(ColumnText(r, c.field, z), c.keyword)
    [] c.op = "dateEq"     -> /\ c.searchDate.valid
                              /\ DATE(r[c.field], z) = DATE(c.searchDate.time, z)
    [] c.op = "gte"        -> r[c.field] >= ReadTimestamp(c.date)
    [] c.op = "lte"        -> r[c.field] <= ReadTimestamp(c.date)
    [] c.op = "brackets"   -> EvalWheres(c.wheres, r, z)

\* the WHERE expression c1 (AND|OR) c2 ...: AND binds tighter than OR, and
\* the connective of the first condition is dropped
EvalWheres(ws, r, z) ==
  \/ ws = <<>>
  \/ \E i \in 1..Len(ws) :
       /\ i = 1 \/ ws[i].type = "or"
       /\ LET j == CHOOSE k \in i..Len(ws) :
                     /\ \A n \in (i + 1)..k : ws[n].type # "or"
                     /\ k = Len(ws) \/ ws[k + 1].type = "or"
          IN  \A n \in i..j : Holds(ws[n].condition, r, z)

\* a variant of MayPrecede that sorts businessName descending
MayPrecede_NameDescending(a, b, order) ==
  CASE order = <<"businessName", "ASC">> -> TextLeq(b.businessName, a.businessName)
    [] order = <<"createdAt", "DESC">>   -> a.createdAt >= b.createdAt

\* whether row a may come before row b under orderBy(field, direction)
MayPrecede(a, b, order) ==
  CASE order = <<"businessName", "ASC">> -> TextLeq(a.businessName, b.businessName)
    [] order = <<"createdAt", "DESC">>   -> a.createdAt >= b.createdAt

RECURSIVE Orderings(_, _)
\* the orders in which the store may return the rows of S: rows that tie
\* on the sort key come in any order
Orderings(S, order) ==
  IF S = {} THEN { <<>> }
  ELSE UNION { { <<r>> \o p : p \in Orderings(S \ {r}, order) } :
               r \in { m \in S : \A x \in S : MayPrecede(m, x, order) } }

Min(a, b) == IF a <= b THEN a ELSE b

\* a variant of SkipTake that takes one row more
SkipTake_OneMore(rows, offset, limit) ==
  SubSeq(rows, offset + 1, Min(offset + limit + 1, Len(rows)))

\* skip(offset).take(limit) over the ordered rows
SkipTake(rows, offset, limit) ==
  SubSeq(rows, offset + 1, Min(offset + limit, Len(rows)))

\* getManyAndCount: the possible [data, total] pairs of a query
getManyAndCount(query, table, z) ==
  LET matches == { r \in table : EvalWheres(query.wheres, r, z) }
  IN  { [data  |-> SkipTake(p, query.skip, query.take),
         total |-> Cardinality(matches)] : p \in Orderings(matches, query.orderBy) }

----------------------------------------------------------------------------
(* DateFormatter *)

formatBusinessInfoDates(r, z) ==
  [r EXCEPT !.createdAt = TimestampText(@, z), !.updatedAt = TimestampText(@, z)]

formatBusinessInfoArrayDates(data, z) ==
  [i \in 1..Len(data) |-> formatBusinessInfoDates(data[i], z)]

----------------------------------------------------------------------------
(* BusinessInfoSearchService *)

BadRequestException == "BadRequestException"

NoValue == [data |-> <<>>, total |-> 0, page |-> 0, limit |-> 0]

NoCall ==
  [op |-> "none", args |-> <<>>, outcome |-> "none", queried |-> FALSE,
   value |-> NoValue]

Throw(op, args, error) ==
  [op |-> op, args |-> args, outcome |-> error, queried |-> FALSE,
   value |-> NoValue]

Return(op, args, value) ==
  [op |-> op, args |-> args, outcome |-> "ok", queried |-> TRUE,
   value |-> value]

isDateSearch(keyword) == datePattern(keyword)

addTextSearchConditions(qb, keyword) ==
  qb \o [i \in 1..Len(validFields) |->
           [type |-> "or",
            condition |-> [op |-> "like", field |-> validFields[i],
                           keyword |-> <<"%">> \o keyword \o <<"%">>]]]

\* a variant of addDateSearchConditions without the updatedAt clause
addDateSearchConditions_CreatedAtOnly(qb, keyword, z) ==
  orWhere(qb, [op |-> "dateEq", field |-> "createdAt",
               searchDate |-> NewDate(keyword, z)])

addDateSearchConditions(qb, keyword, z) ==
  LET searchDate == NewDate(keyword, z)
  IN  orWhere(orWhere(qb, [op |-> "dateEq", field |-> "createdAt",
                           searchDate |-> searchDate]),
              [op |-> "dateEq", field |-> "updatedAt", searchDate |-> searchDate])

\* a variant of searchQuery without the not-deleted filter
searchQuery_NoDeletedFilter(keyword, page, limit, z) ==
  [wheres  |-> where(Brackets(addTextSearchConditions(<<>>, Trim(keyword)))),
   orderBy |-> <<"businessName", "ASC">>,
   skip    |-> (page - 1) * limit,
   take    |-> limit]

\* the query search() builds
searchQuery(keyword, page, limit, z) ==
  LET trimmedKeyword == Trim(keyword)
      offset == (page - 1) * limit
      text == addTextSearchConditions(<<>>, trimmedKeyword)
      group == IF isDateSearch(trimmedKeyword)
                 THEN addDateSearchConditions(text, trimmedKeyword, z)
                 ELSE text
  IN  [wheres  |-> andWhere(where(NotDeleted), Brackets(group)),
       orderBy |-> <<"businessName", "ASC">>,
       skip    |-> offset,
       take    |-> limit]

\* a variant of search that converts the parsed date with toISOString
search_ConvertsDate(keyword, page, limit, table, z) ==
  IF isDateSearch(Trim(keyword)) /\ toISOStringThrows(NewDate(Trim(keyword), z))
    THEN { Throw("search", <<keyword, page, limit>>, RangeError) }
    ELSE { Return("search", <<keyword, page, limit>>,
                  [data  |-> formatBusinessInfoArrayDates(q.data, z),
                   total |-> q.total, page |-> page, limit |-> limit]) :
             q \in getManyAndCount(searchQuery(keyword, page, limit, z), table, z) }

\* the results search() may return
search(keyword, page, limit, table, z) ==
  { Return("search", <<keyword, page, limit>>,
           [data  |-> formatBusinessInfoArrayDates(q.data, z),
            total |-> q.total, page |-> page, limit |-> limit]) :
      q \in getManyAndCount(searchQuery(keyword, page, limit, z), table, z) }

\* a variant of validateDateRange that rejects only two malformed dates
validateDateRange_BothMalformed(startDate, endDate) ==
  IF ~datePattern(startDate) /\ ~datePattern(endDate)
    THEN BadRequestException
    ELSE "ok"

validateDateRange(startDate, endDate) ==
  IF ~datePattern(startDate) \/ ~datePattern(endDate)
    THEN BadRequestException
    ELSE "ok"

\* the query searchByDateRange() builds, once both dates are converted
dateRangeQuery(startISO, endISO, page, limit) ==
  LET offset == (page - 1) * limit
  IN  [wheres  |-> andWhere(andWhere(where(NotDeleted),
                     [op |-> "gte", field |-> "createdAt", date |-> startISO]),
                     [op |-> "lte", field |-> "createdAt", date |-> endISO]),
       orderBy |-> <<"createdAt", "DESC">>,
       skip    |-> offset,
       take    |-> limit]

\* the results searchByDateRange() may return
searchByDateRange(startDate, endDate, page, limit, table, z) ==
  LET args == <<startDate, endDate, page, limit>>
  IN  IF validateDateRange(startDate, endDate) # "ok"
        THEN { Throw("searchByDateRange", args, BadRequestException) }
      ELSE LET start == NewDate(startDate, z)
               end   == NewDate(endDate, z)
               startISO == toISOString(start)
               endISO   == toISOString(end)
           IN  IF toISOStringThrows(start) \/ toISOStringThrows(end)
                 THEN { Throw("searchByDateRange", args, RangeError) }
               ELSE { Return("searchByDateRange", args,
                        [data  |-> formatBusinessInfoArrayDates(q.data, z),
                         total |-> q.total, page |-> page, limit |-> limit]) :
                      q \in getManyAndCount(
                              dateRangeQuery(startISO, endISO, page, limit),
                              table, z) }

----------------------------------------------------------------------------
(* Inputs of the calls *)

Keywords ==
  { <<>>, <<" ">>, <<" ", "a", " ">>, <<"a", "b">>, <<"_">>, <<"%">>,
    <<"2", "0", "2", "4", "-", "0", "1", "-", "1", "5">>, <<"2", "0", "2", "4", "/", "1", "/", "1", "5">>, <<"2", "0", "2", "4", "-", "1", "3", "-", "0", "1">> }

DateTexts ==
  { <<"2", "0", "2", "4", "-", "0", "1", "-", "1", "5">>, <<"2", "0", "2", "4", "/", "1", "/", "1", "5">>, <<"2", "0", "2", "4", "-", "0", "1", "-", "3", "1">>, <<"2", "0", "2", "4", "-", "1", "3", "-", "0", "1">>, <<"2", "0", "2", "4", "0", "1", "3", "1">> }

\* page: number = 1, limit: number = 10
DefaultPage == 1

DefaultLimit == 10

Pages == 1..MaxPage

Limits == 1..MaxLimit

\* the (page, limit) pairs of the calls, the defaults among them
PageLimits == (Pages \X Limits) \cup {<<DefaultPage, DefaultLimit>>}

----------------------------------------------------------------------------
(* The state machine.  The service keeps no state between calls and never  *)
(* changes the table, so a behaviour is a table, the zone of the process,  *)
(* one call, and that same call made again: result is the last call with   *)
(* what it returned or threw, prev is the call before it.                  *)

Init ==
  /\ store \in SUBSET Catalog
  /\ tz \in TimeZones
  /\ result = NoCall
  /\ prev = NoCall

\* the caller's first call, or the last call made again
FirstOrRepeat(op, args) ==
  result.op = "none" \/ (result.op = op /\ result.args = args)

Search(keyword, page, limit) ==
  /\ FirstOrRepeat("search", <<keyword, page, limit>>)
  /\ result' \in search(keyword, page, limit, store, tz)
  /\ prev' = result
  /\ UNCHANGED <<store, tz>>

SearchByDateRange(startDate, endDate, page, limit) ==
  /\ FirstOrRepeat("searchByDateRange", <<startDate, endDate, page, limit>>)
  /\ result' \in searchByDateRange(startDate, endDate, page, limit, store, tz)
  /\ prev' = result
  /\ UNCHANGED <<store, tz>>

Next ==
  \/ \E keyword \in Keywords, pl \in PageLimits :
       Search(keyword, pl[1], pl[2])
  \/ \E startDate \in DateTexts, endDate \in DateTexts, pl \in PageLimits :
       SearchByDateRange(startDate, endDate, pl[1], pl[2])

Spec == Init /\ [][Next]_vars

----------------------------------------------------------------------------
(* Vocabulary of the properties *)

Ok == result.outcome = "ok"

IsSearch == result.op = "search"

IsRange == result.op = "searchByDateRange"

Data == result.value.data

Total == result.value.total

\* the page and limit arguments of the last call
ArgPage == result.args[Len(result.args) - 1]

ArgLimit == result.args[Len(result.args)]

ArgOffset == (ArgPage - 1) * ArgLimit

\* the rows of the table that are not deleted
Live == { r \in store : r.isDeleted = FALSE }

\* the table row a returned record shows (businessNumber tells the rows apart)
RowOf(d) == CHOOSE r \in store : r.businessNumber = d.businessNumber

DataRows == { RowOf(Data[i]) : i \in 1..Len(Data) }

\* kw occurs in text as a substring
Contains(text, kw) ==
  \E i \in 0..(Len(text) - Len(kw)) : SubSeq(text, i + 1, i + Len(kw)) = kw

\* some one of the 15 listed fields of r contains kw
SomeFieldContains(r, kw) ==
  \E i \in 1..Len(validFields) : Contains(ColumnText(r, validFields[i], tz), kw)

\* what the last call returns when made on table t
CallOn(t) ==
  IF IsSearch
    THEN search(result.args[1], result.args[2], result.args[3], t, tz)
    ELSE searchByDateRange(result.args[1], result.args[2], result.args[3],
                           result.args[4], t, tz)

\* the last call made with other page and limit arguments
CallWith(page, limit) ==
  IF IsSearch
    THEN search(result.args[1], page, limit, store, tz)
    ELSE searchByDateRange(result.args[1], result.args[2], page, limit, store, tz)

\* the sort order of the last call
SortOrder == IF IsSearch THEN <<"businessName", "ASC">> ELSE <<"createdAt", "DESC">>

----------------------------------------------------------------------------
(* C1: no deleted record appears in the data returned by search or by      *)
(* searchByDateRange, and none is counted in total: every returned record  *)
(* has isDeleted = false, and total is the total the same call gives on    *)
(* the table with its deleted rows taken out.                              *)
C1_NoDeletedRecord ==
  Ok => /\ \A i \in 1..Len(Data) : Data[i].isDeleted = FALSE
        /\ \E q \in CallOn(Live) : q.value.total = Total

\* a keyword search that matches every row, on a table holding a deleted row
C1_Witness ==
  /\ IsSearch /\ Ok /\ Trim(result.args[1]) = <<>>
  /\ Total > 0
  /\ \E r \in store : r.isDeleted

(* C2: searchByDateRange with a startDate or an endDate that does not      *)
(* match the date shape fails with the BadRequest validation error, and    *)
(* no query is issued.                                                     *)
C2_MalformedDateRejected ==
  (IsRange /\ (~datePattern(result.args[1]) \/ ~datePattern(result.args[2])))
    => (result.outcome = BadRequestException /\ ~result.queried)

\* a well-shaped start date with a malformed end date, rejected
C2_Witness ==
  /\ IsRange
  /\ datePattern(result.args[1])
  /\ ~datePattern(result.args[2])
  /\ result.outcome = BadRequestException

(* C3: searchByDateRange("2024-13-01", "2024-01-31", 1, 10) fails with     *)
(* the BadRequest validation error.                                        *)
C3_Month13IsValidationError ==
  (IsRange /\ result.args = << <<"2", "0", "2", "4", "-", "1", "3", "-", "0", "1">>, <<"2", "0", "2", "4", "-", "0", "1", "-", "3", "1">>, 1, 10 >>)
    => result.outcome = BadRequestException

(* C4: keyword search never fails: for every keyword, page and limit,      *)
(* search returns a SearchResult and raises no error.                      *)
C4_SearchNeverFails ==
  IsSearch => (Ok /\ result.value.page = ArgPage /\ result.value.limit = ArgLimit)

\* a search with a date-shaped keyword that is no calendar date has returned
C4_Witness ==
  IsSearch /\ Ok /\ Trim(result.args[1]) = <<"2", "0", "2", "4", "-", "1", "3", "-", "0", "1">>

(* C5: for page >= 1 and limit >= 1, data is the slice of the full ordered *)
(* match set after skipping (page-1)*limit records, at most limit records  *)
(* long (empty when the offset is at or past the end); total is the size   *)
(* of the full match set whatever page and limit are; the returned page    *)
(* and limit are the arguments.                                            *)
C5_Pagination ==
  Ok =>
    /\ result.value.page = ArgPage
    /\ result.value.limit = ArgLimit
    /\ Len(Data) <= ArgLimit
    /\ ArgOffset >= Total => Data = <<>>
    /\ \E M \in SUBSET store :
         /\ Cardinality(M) = Total
         /\ \E p \in Orderings(M, SortOrder) :
              /\ Len(Data) = IF Total - ArgOffset <= 0 THEN 0
                             ELSE IF Total - ArgOffset < ArgLimit
                               THEN Total - ArgOffset ELSE ArgLimit
              /\ \A i \in 1..Len(Data) : RowOf(Data[i]) = p[ArgOffset + i]
    /\ \E q \in CallWith(DefaultPage, DefaultLimit) : q.value.total = Total

\* the second page of a match set that goes on past it
C5_Witness ==
  /\ Ok /\ ArgPage = 2 /\ ArgLimit = 1
  /\ Len(Data) = 1
  /\ Total > 2

(* C6: for a keyword that is not date-shaped, the match set of search is   *)
(* exactly the non-deleted records in which one of the 15 listed fields    *)
(* contains the trimmed keyword as a substring (all non-deleted records    *)
(* when the keyword trims to empty).                                       *)
C6_SubstringMatch ==
  (IsSearch /\ Ok /\ ~datePattern(Trim(result.args[1]))) =>
    LET expected == { r \in Live : SomeFieldContains(r, Trim(result.args[1])) }
    IN  /\ Total = Cardinality(expected)
        /\ DataRows \subseteq expected

(* C7: the data of search is ordered ascending by businessName, the data   *)
(* of searchByDateRange descending by createdAt.                           *)
C7_Ordered ==
  Ok => \A i \in 1..(Len(Data) - 1) :
          /\ IsSearch => TextLeq(Data[i].businessName, Data[i + 1].businessName)
          /\ IsRange => RowOf(Data[i]).createdAt >= RowOf(Data[i + 1]).createdAt

\* a search that returned records with different names
C7_Witness ==
  /\ IsSearch /\ Ok
  /\ \E i \in 1..(Len(Data) - 1) : Data[i].businessName # Data[i + 1].businessName

(* C8: when both dates match the date shape, searchByDateRange succeeds    *)
(* and its match set is exactly the non-deleted records whose createdAt    *)
(* lies between the instant of startDate at 00:00:00 and the instant of    *)
(* endDate at 00:00:00, both bounds inclusive.                             *)
C8_ShapedDatesSucceed ==
  (IsRange /\ datePattern(result.args[1]) /\ datePattern(result.args[2])) =>
    /\ Ok
    /\ LET from == NewDate(result.args[1], tz).time
           to   == NewDate(result.args[2], tz).time
           expected == { r \in Live : from <= r.createdAt /\ r.createdAt <= to }
       IN  /\ Total = Cardinality(expected)
           /\ DataRows \subseteq expected

C10_Idempotent ==
  prev.op # "none" => result = prev

====
